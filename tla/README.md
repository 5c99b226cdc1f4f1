# A TLA+ model of the New Relic Lambda extension

The extension is a Go process that runs beside a Lambda function. It learns of
invocations from the Lambda Extensions API, reads the agent's telemetry from a
named pipe, receives the platform's logs over HTTP, joins them per invocation and
ships them to New Relic, without delaying the function and without losing or
mixing up what it was given. This directory holds a TLA+ model of it, the runs
that model-check it with TLC, and theorems about it that TLAPS checks.

## 1. The system

| Component | State | Operations | Talks to |
|---|---|---|---|
| Event loop, `main.go` `mainLoop` | `lastRequestId`, `lastEventStart`, `probablyTimeout`, the deadline timer | answer one event of NextEvent: register the invocation, poll reports, harvest, await telemetry or the time limit; on Shutdown synthesize a message and end | everything below |
| Shutdown sequence, end of `main` | | last poll, `LogServer.Close`, `Batch.Close`, ship, wait for the shipping goroutine | log server, batch, client |
| Telemetry batch, `telemetry/batch.go` | invocations by request id, `eldest`, `lastHarvest`, trace ids by request id | `AddInvocation`, `AddTelemetry`, `Harvest`, `Close`, `RetrieveTraceID` | called by the loop and, for trace ids, by the shipping goroutine |
| Agent pipe, `telemetry/ipc.go` | a goroutine and an unbuffered channel | open, read to the end, send | agent, event loop |
| Logs API server, `lambda/logserver/logserver.go` | `isShuttingDown`, `wg`, `lastRequestId`, a buffered channel of reports, an unbuffered one of function logs | one handler goroutine per POST, `PollPlatformChannel`, `AwaitFunctionLogs`, `Close` | platform, loop, shipping goroutine |
| Log shipping, `logShipLoop`, `APMlogShipLoop` | | take lines, send them, until the channel is closed | log server, client |
| Telemetry client, `telemetry/client.go`, `request.go` | retry state of an attempt | `SendTelemetry`, `SendFunctionLogs`, `sendPayloads`, `attemptSend`, recursive splitting | New Relic |
| APM application, `apm/` and the APM loops of `main.go` | `Run`, saved data, five channels, the entity guid | `process`, `connectRoutine`, `doHarvest`, `sendError`, `mainAPMLoop`, `getAPMEntityGUID`, `pollLogAPMServer` | New Relic collector, loop, log server |
| License key, `credentials/`, `config/` | | sources in order, with fallbacks | Secrets Manager, SSM |
| Startup, `main` | | register, key, log server, subscription, pipe, client; `noopLoop` when disabled or without a key | platform |
| Startup checks, `checks/`; helpers, `util/` | | one-shot inspections; compression, logging | files, environment |

What is hard here, and what makes each part correct:

- **Event loop.** The container is frozen between events; telemetry may come
  late, early, never or twice as late; SIGTERM may come at any time. Request ids come back when Lambda
  retries a failed asynchronous invocation. Correct
  when every payload goes to the request it belongs to, everything accepted
  is handed to the client once, the loop always gets back to NextEvent in time,
  and it stops when told to.
- **Batch.** Several writers in any order, two harvest policies that share two
  clocks, request ids that come back. Correct when no payload is lost or
  returned twice and nothing stays behind past the policy's limits.
- **Log shipping.** The shipping goroutine asks the batch for trace ids while the
  event loop writes it. Correct when a line never gets another request's id.
- **Log server.** Handlers of `net/http` race `Close`, on channels that are
  bounded or have no buffer at all. Correct when nobody sends on a closed
  channel, an accepted POST is passed on whole, `Close` returns, and lines are
  attributed to their invocation.
- **Client.** A timeout races a late success; retries may duplicate. Correct
  when a success is only counted for a delivered payload, and every call ends.
- **APM application.** A process goroutine among five channels. Correct when it
  never blocks for good, saved data is sent once, and a restart reconnects; a
  payload that goes out as seven requests counts as sent only if all were accepted.

`PROJECT.json` lists each of these hazards at the line where it bites, with the
properties that look at it or the reason why none does yet.

## 2. Modules

| Module | Models | State and actions against the code |
|---|---|---|
| `BatchOps` | the methods of `Batch` as functions of a batch value | `invocations` and `storeTraceID` are functions on the request ids present; a harvest returns the invocations it took and the batch that is left. Every method holds `Batch.lock` throughout, so one operator is one atomic step. |
| `Batch` | the batch under an arbitrary caller | one action per method, `Tick` for the clock, and history of what became of each numbered payload |
| `TelemetryStore` | what a batch promises, without clocks or policy | a payload is kept or turned away; what is kept for a request leaves together, once; `Batch` implements it |
| `LogServer` | `logserver.go` and the two goroutines that drain it | `pc[h]` is the place of handler h between `wg.Add` and `wg.Done`; one action per event type, `ReadFlag`, the rendezvous `SendFunctionLogs`, one action per statement of `Close` that another goroutine can see, one per receive of a poll. The shipping goroutine is that of either mode; in APM mode it first waits at a gate. |
| `LogShipping` | `LogServer` composed with the batch through the event loop and `logShipLoop`, `buildLogPayloads` | extends `LogServer`, whose `main` becomes the real event loop; adds `batch`, the `stage` of the loop, and the lines being `unstamped`; `StampLine` is one `RetrieveTraceID` under the batch's lock. An invocation and its request id are told apart, because a retry comes under the id of the first attempt. What the loop takes from the pipe is the payload of any invocation that has run since the last one taken, and is added to the request begun last (`AddAgentTelemetry`); `accepted` remembers what the batch took for whom. |
| `MainLoop` | `mainLoop`, the end of `main`, the pipe reader, with the function, its agent and the platform around them | one action per stretch between two blocking calls; uses the operators of `BatchOps` on its own batch. `requestOf` gives each invocation its request id, any assignment that lets retries come back under the id of an earlier attempt. |
| `TelemetryClient` | one call of `sendPayloads`, its goroutines `attemptSend`, New Relic, the clock | per payload: the place of its goroutine, its context's `deadline`, the one-element channel `data`, and `request`, what has become of the HTTP request, which may also be one that cannot be built (`BuildFails`); a request that timed out may still be accepted (`AcceptLate`) |
| `PayloadSplit` | `CompressedPayloadsForLogEvents` | the recursive halving as a recursive function over every possible outcome of compressing each slice, against a reference that says which slices are sent |
| `APMApp` | `InternalAPMApp`: `process`, `connectRoutine`, `doHarvest`, `sendError` | one action per case of the `select` of `process`, per attempt and delivery of a `connectRoutine`, per step of a harvest; the channels are sequences with their capacities |
| `APMLoop` | `mainAPMLoop`, `pollLogAPMServer`, `getAPMEntityGUID`, `APMlogShipLoop` and the end of `main`, around `APMApp` | extends `APMApp`; the watcher of the guid has one action per read of `Run`, because `process` writes it meanwhile. `Close` is two steps, the flag and the return of `wg.Wait`, between which the shipping goroutine takes the lines that wait, if it is there. |
| `APMSend` | one call of `SendAPMTelemetry` with a goroutine per kind of data, the `WaitGroup`, `errChan` and `done` | `sender[k]` is the place of goroutine k, between the two `Add`s and the two `Done`s; the `select` takes either case when both are ready |
| `Startup` | `main` up to the event loop, the configuration and license key, `noopLoop` | one action per call, with each outcome its caller tells apart |
| `BatchProofs`, `LogShippingProofs` (also of `LogServer`), `MainLoopProofs`, `PayloadSplitProofs`, `TelemetryClientProofs`, `APMLoopProofs`, `APMSendProofs`, `StartupProofs` | theorems | section 5 |
| `MCBatch`, `MCLogServer`, `MCLogShipping` | model-checking values | symmetry; log streams cut into POSTs at every possible place |

How they fit together: `Startup` ends where `MainLoop` or `APMLoop` begins.
`BatchOps` is shared: `Batch` checks the operators under any caller, `MainLoop`
and `LogShipping` under the callers the program has. `LogShipping` leaves open
the clock and whose payload the loop takes when, which are `MainLoop`'s, and adds what
`MainLoop` leaves out, the handlers and the shipping goroutine. `MainLoop` records what `shipHarvest` hands
to the client; `PayloadSplit` says which payloads that becomes and
`TelemetryClient` what happens to them. `APMSend` is inside a harvest of `APMApp`,
which keeps of it that the answer is a success or not. Both loops keep of the log server only
its report buffer and its `Close`, because the rest is `LogServer`'s: in `MainLoop`
`Close` is the flag, since the shipping goroutine takes every line to the end
(`ShutdownEnds`); in `APMLoop` it may also wait for lines. The buffer's bound of
100 is out of reach of two invocations.

An operator whose comment begins with "Mutant:" is not part of the model: it is
a plausible mistake in the definition below it, and `PROJECT.json` names the
property that finds it.

Abstractions. An instant is a natural number; in the batch 0 is `epochStart` and
the zero `time.Time`, and the real clock is decades past it, which
`ClockAssumption` and `BoundAssumption` state. A payload is its identity and the
trace id found in it. A log event is its type, the request id that can be read
in it and, as history, the invocation it came from. `sync.WaitGroup` is an
atomic counter. The random part of a retry's delay, below 200 ns, is 0. In APM
mode an answer of the collector is its status, a run is its entity guid or
nothing, and the requests one payload is split into share one answer; a report is
named for what the parser finds in it. There the time limit of an invocation may
pass, a report be posted and the agent's payload be at hand whenever the loop
looks, which is more than the platform can do and leaves the clock, the log
server's buffer and the pipe's reader out. Texts,
encodings and log output are left out.

## 3. Runs

| Run | Shows | Bounds |
|---|---|---|
| `batch_ops` | every payload in exactly one place (`EachPayloadOnce`); pending telemetry has an eldest; a harvest leaves no backlog; refinement of `TelemetryStore` | 2 request ids, 3 payloads, 2 trace ids, ripe after 1 and rot after 2 instants, 4 instants. An invocation can ripen, rot, be harvested, and be begun again with a payload to spare. |
| `log_shipping` | lines of a Node function are attributed to their request; a line carries a trace id only of a payload that the batch accepted for its request (`TraceOfOwnRequest`); it goes without one only before the batch has accepted one (`BlankOnlyWhenEarly`, a property of the step that sends it) | 3 invocations, the last a retry of the first, 8 events, every cut into 2 POSTs, one POST at a time; any harvest at any poll; any late or early payload |
| `logserver_concurrent` | no send on a closed channel; `wg` counts; POSTs are passed on whole; `Close` returns and the shipping goroutine ends unless a handler is stuck | 3 concurrent handlers, a report buffer of 1 (so that it is full), every cut of 6 events, both modes. The stream has a single function line; that of several lines in a POST none is lost is `ShippedWhole` (section 5). |
| `mainloop_loop` | everything accepted is handed over once, or replaced by a retry; agent telemetry finds its invocation, unless a retry was shipped with an old report; shipping a ripe invocation omits nothing, unless it is retried; only a race of the poll confuses requests; a timeout is reported or its record had been shipped; the loop waits for nothing for good, and Shutdown and SIGTERM stop the extension | 2 invocations, the second a new request or a retry, in 5 instants, timeout 2, watch margin 1: false and real timeouts one after the other, both harvests, a report of the first attempt polled into the record of the second, SIGTERM at any moment (which is also how NextEvent fails) |
| `client_timeout` | a counted success was accepted; one failure does not keep the other payloads from being tried, those of which a request can be built; the caller is held at most `Client.timeout` per payload; an abandoned goroutine leaves within a request and a sleep, and none stays | 2 payloads, timeout 5, request timeout 2, 3 tries, a back-off that meets its limit, SIGTERM at any moment: the second payload starts while the goroutine of the first still runs |
| `split_halving` | every event is sent once, in order, in the largest halves that fit | up to 6 events, every outcome of compressing each slice: odd and even halves, failures on every level |
| `apm_loop` | a payload is in one place from the loop to the collector; `process` never blocks on the guid; the loop gets back to NextEvent or ends; after SIGTERM the extension ends; both unless the metric endpoint does not answer or `Close` hangs (`CloseHangs`); a nil ends it in two ways only | 2 invocations, 1 report that can be parsed or not, channels of 1 (so that they are full), answers 200 and 401, SIGTERM at any moment. A request without an answer leads to the same response as a refused one. |
| `apm_send` | no error goes to a closed `errChan`; success means all was accepted; the call returns and every goroutine ends | 3 kinds of data, any of them empty; a request is accepted or not and answered or not; SIGTERM at any moment. Three goroutines give every order of `Add`, `Done`, error and cancellation; the theorems hold for seven. |
| `startup` | the license key is that of the first source named, and empty only if the user made it so; no subscription without a server; start and no-op mode end after SIGTERM | every environment, every outcome of every call |
| `mainloop_attribution`, `mainloop_duration`, `apm_disconnect` | three places where the code does not do what a comment says (section 4) | 1 or 2 invocations |

The three properties of `log_shipping` hold when the platform awaits each reply before its next POST
(`SerialDelivery`) and the log stream is in order (`StreamInOrder`): a line that
names a request names its own, and any other line comes after the
`platform.start` of its invocation and before the next one. (`AttributionExact` is what needs it, and the others rest on that.) With concurrent POSTs
a `platform.start` of one changes the attribution of the other's lines; nothing in
the code or its documents excludes that, and the run assumes it does not happen.
`MCLogShipping` has TLC evaluate both assumptions (`StreamAssumption`) on every
delivery of the run, so that the theorems that rest on them are not empty.

Deadlock is not checked anywhere, because these systems stop: a closed batch, a
closed server, a call that has returned, an extension that has ended.

Fairness. Go schedules every goroutine that can run, so handlers, `Close` and
the shipping goroutine are weakly fair in `LogServer`, and so is the main
goroutine in the loops and in `Startup`, with the clock (in `APMLoop`, the end of the wait for telemetry) and the failure of a
request whose context is cancelled. Nothing is assumed of the platform: it owes
no POST, no event and no end of a function; nothing makes the main goroutine of
`LogServer` poll or close. `Client.SendFunctionLogs` returns because each attempt
runs under a context with a deadline. In `TelemetryClient` New Relic owes no
answer; goroutines run before the clock ticks, which is what makes its bounds in
time exact. In `APMLoop` the steps of `process` and `connectRoutine` are fair
because every request to the collector is answered or times out after 20 s
(`apm/collector.go`), and so are those of a sender in `APMSend`; the metric endpoint owes nothing, because `SendMetrics` has
no timeout, and the liveness properties name that wait as their exception.

## 4. What the code does otherwise than its comments say

- `mainloop_attribution`. After a suspected timeout the loop polls the pipe's
  channel once, without blocking. The channel has no buffer, so the poll fails
  when the reader has read the payload but is not yet in its send. The payload
  is then awaited, and taken, as that of the next invocation, whose own payload
  the agent cannot write until then: every later payload is one invocation off.
  The comment above the poll says the telemetry "will have arrived". The poll
  can also come too late and take the payload of the new invocation, when its
  function is quick; `MisattributedOnlyByRace` shows that these two are the only
  ways in which payloads are confused. What a payload added to the wrong request
  does to the lines is in `LogShipping`: the batch stores its trace id under that
  request, whose lines then carry it, while the lines of its own invocation stay
  without. `TraceOfOwnRequest` and `BlankOnlyWhenEarly` speak of the requests for
  which the batch accepted a payload for this reason.
- `mainloop_duration`. `lastEventStart` is set at the end of the loop's body,
  which the timeout path skips. At the Shutdown event after a timeout it is the
  start of an earlier invocation, or of the extension.
- `apm_disconnect`. `newRPMResponse` keeps the error but not the status of the
  collector's answer, so `process` sees status 0 and neither disconnects nor
  reconnects on the statuses it has cases for.

Seen while modelling, and not given a run of their own:

- A timeout message for an invocation whose telemetry was harvested before its
  function timed out is dropped silently (`main.go:353`); hence the second half
  of `TimeoutReportedOrShipped`.
- A retry in the same environment finds the batch as its earlier attempt left it.
  What the record still holds is dropped when `AddInvocation` replaces it
  (`batch.go:51`): the one way to lose what was accepted (`HandedExactlyOnce`,
  `discarded`). The report of the earlier attempt goes into the new record, and an
  aggressive harvest may ship it at once and remove the record; the retry's own
  payload is then turned away (`main.go:400`; `AgentTelemetryAlwaysAttached`). Or
  that report makes the record look complete as soon as the retry's payload is
  there, and the retry's own report is turned away: the comment "Sending a ripe
  invocation won't omit data" (`batch.go:179`) is false of a retried request, hence
  the condition in `RipeOmitsNothing`.
- `pollLogAPMServer` waits for the entity guid under the context of the extension
  alone, with the timer of the invocation already running. `Connect` accepts a
  reply that lacks only one of its two fields (`connect.go:267`); without a guid
  the loop never gets back to NextEvent. `LoopGoesOn` is checked for complete
  replies only (`CompleteReplies`), because it fails without.
- The error of `ParseLambdaReportLog` is ignored, so a report in a format it does
  not know ends the extension with a nil dereference (`main.go:532`); this is the
  second half of `NilOnlyTwoWays`.
- Telemetry that comes late makes a trace id blank, says the comment at
  `client.go:332`. The lines of a retried request get the id of the earlier
  attempt instead, because `storeTraceID` is never cleared: the properties speak of
  requests and not of invocations.
- A payload of which the collector has accepted some kinds and refused one is a
  failed harvest, whose data is not sent again; `process` then withdraws the
  published run.
- In APM mode the shipping goroutine leaves when SIGTERM comes before the guid is
  known (`main.go:268`). A handler with lines then waits for ever, and `Close` for
  the handler (`logserver.go:75`), so that `main` never ends: `ShutdownEnds` names
  this for the log server (`StuckOnLines`) and `LoopGoesOn` and `StopsWhenTold` for
  the whole of APM mode (`CloseHangs`). The platform ends the process in the end.
- `log_event_data` and `update_loaded_modules` of an agent's payload are decoded
  (`apm_payload.go:25`, `:30`) and never sent: there are tasks for seven kinds of
  data (`connect.go:443`). `SuccessMeansAllAccepted` is about those.
- `sendAPMTelemetryInternal` turns a panic into an empty response, which counts as
  success (`connect.go:305`). Nothing it does panics on the data it is given, so
  that the model leaves the recover out.
- `mainAPMLoop` never sets `lastRequestId`, so the error event of a Shutdown in
  APM mode names no request (`main.go:466`).
- The comment of `GetNewRelicLicenseKey` has the environment variable as the
  fallback; the code, and the README's table, have it first. A variable that is
  set to nothing hides the sources after it, and the extension then runs with an
  empty key.
- A secret in binary form ends the extension instead of failing open
  (`credentials.go:172`).
- A client timeout of 0 sends nothing, and the last harvest after SIGTERM fails
  at once, because its context is cancelled. `EveryPayloadTried` excepts both.
- That a payload put aside by `process` is not sent twice (`PayloadInOnePlace`)
  rests on the event loop alone: it lets no data through before the guid is
  known.

## 5. Proofs

Every theorem holds for all values of the constants that satisfy the assumptions
named in the module it is about, most of which only say that a constant is a
natural number. TLC evaluates them in the runs.

`BatchProofs`, for any requests, trace ids, durations and number of payloads,
under any caller:

- `TypeCorrect`, `PendingIsDated` (`PendingHasEldest`), `NoneLostNoneTwice`
  (`EachPayloadOnce`), `NoBacklog` (`HarvestLeavesNoBacklog`);
- `Refinement`: `Spec => ImplementsStore`, each action mapped to one of the store
  or to a stutter.

`EachPayloadOnce` counts, and a count is awkward to follow through three harvests.
The invariant says instead that no two positions of the batch hold one payload
(`IdsUnique`), that payloads are numbered as they come, and that the places
partition the numbers given so far (`Partition`). A harvest divides the map of
invocations in two (`Splits`), which is proved once for each of the three and used
by both the invariant and the refinement.

`MainLoopProofs`, for any number of invocations and failed events, any timeouts and
margins, with or without SIGTERM: `TypeCorrect`, `HandedOnce`
(`HandedExactlyOnce`), `AgentAttached` (`AgentTelemetryAlwaysAttached`),
`RipeLosesNothing` (`RipeOmitsNothing`), `MisattributedByRace`
(`MisattributedOnlyByRace`), `TimeoutReported` (`TimeoutReportedOrShipped`). None of
the last five is inductive. All allow any number of retries. The invariant `Inv` has two halves:

- `BookInv` relates the batch to what was attached, turned away, replaced and handed
  over, whatever the loop is doing. `Places`: what was attached is in the batch,
  handed over or discarded, at one position of one of them. `Single`: a request that
  has not come back has one agent's payload at most. `Known`: a request begun is in
  the batch or was shipped, the last one since it began. `TurnedAway`: what was
  turned away for a request that has not come back came late, after it was shipped
  with its agent's payload alone; and an agent's payload was turned away only where
  the report of an earlier attempt was shipped (`Outrun`). It is kept by each
  operation on a book (`Attach`, `Begin`, a poll, a harvest), once for all actions.
- The rest ties the book to the place of the loop. `Clock` and `Progress`: which
  request the loop is at. `Pipe`: a payload is attached once, after it left the pipe.
  `Reports`: a report is attached once, and in the loop only if it is of an
  invocation before the last one begun. `Expected`: while the agent's payload may
  still come, the request is in the batch, with nothing attached if it has not come
  back, so that neither harvest takes it; or an old report was shipped. This is what
  keeps the agent's telemetry from being turned away. `Race`: until a poll loses its
  race the payload in the pipe is that of the last request. `LastWordsSaid` and
  `Emptied`: what holds once the loop is left and once the extension has ended.

`pollLogServer` and `shipHarvest` are loops over what they have taken. They are
recursive functions in the model; that such a function exists, and what holds
after each pass, is proved by looking at the least pass for which it would fail
(`LeastOf`), since an induction rule cannot be instantiated.

`LogShippingProofs`, on the log server by itself, for any number of POSTs, any
bodies and any capacity: `TypeCorrect`, `WaitGroupCounts`,
`NoPanicOnClosedChannel`, `ShippedWhole` (`PostShippedWhole`).
`NoSendOnClosedChannel` is not inductive: from a state where `Close` is past its
wait and a handler has work to do, the next step breaks it. The invariant `Inv`
excludes that state (`NoneWorkingAfterWait`), and needs for it that `wg` counts
the active handlers (so that `wg = 0` means there are none) and that the flag is
up from the first step of `Close` on (so that a handler entering later is
refused). The cardinality of the active handlers is followed with the library's
theorems on finite sets, and so is the number of lines: what a handler has
collected are the lines of the events it is done with (`CollectedSoFar`).

On the composition:

- `ImplementsLogServer`: every step of the composition is a step of `LogServer` or
  leaves it alone, so the theorems above hold for the server with the program's
  own event loop and shipping goroutine (`NoPanicInTheProgram`);
- `TraceOfAttributed`, `TracedNeverBlank`: whatever the loop takes from the pipe, a
  line carries a trace id the batch accepted for the request it is attributed to, or
  none, and never none after the batch has accepted one. The invariant is that
  `storeTraceID` holds, for every request for which a trace id was accepted, one of
  those accepted for it;
- `OwnTraceIfAttributed`: if lines are attributed to the requests that wrote them the
  trace id was accepted for that request, and if payloads too were accepted only for
  their own requests (what `MisattributedByRace` shows of the event loop that loses
  no race), the trace id is the request's own. These are the only two ways to a
  wrong trace id;
- `Attribution` (`AttributionExact`), `OwnTrace` (`TraceOfOwnRequest`),
  `BlankWhenEarly` (`BlankOnlyWhenEarly`), for any invocations, retries and cuts
  of the stream, under `SerialDelivery` and `StreamInOrder`. The server keeps one
  `lastRequestId` for all handlers. The invariant is that the POSTs are processed
  in turn (`InTurn`) and that `lastRequestId` is then the id of the last
  `platform.start` among all events processed (`LastStart`), which is the one
  `StreamInOrder` gives a line.

`PayloadSplitProofs`, for any number of events and any outcome of compressing each
slice: `SplitCorrect` (`SplitAsReference`). The slices halving can lead to are
nested or apart (`Nested`), so what is part of a slice that is split is part of
one half, and what halving a slice returns (`Result`) follows from what it
returns for the halves (`ResultSplit`); for all slices by looking at the shortest
for which it would fail.

`TelemetryClientProofs`, for any number of payloads and any durations:

- `TypeCorrect`, with the limit of the back-off;
- `SuccessCertain`: `successCount` never exceeds what New Relic has accepted.
  The invariant follows a success backwards, from the counter to the channel to
  the request that was answered, and counts each payload at most once although
  its goroutine outlives the caller's wait;
- `NoNeedlessRepeat`: one try more than there were timeouts, which is inductive
  only with what each place of the goroutine implies for the two counts;
- `CallerNotHeld` and `AttemptsLeaveSoon`: the bounds in time. The clock waits
  for goroutines that can run, so the invariant bounds the deadline of the n-th
  payload by n timeouts, and each timer by the deadline plus a request and a
  sleep;
- `NoneSkipped` (`EveryPayloadTried`): a payload not yet sent whose request was not
  found impossible to build is the one the caller is at, and the clock has not moved since its goroutine began.

`APMLoopProofs`, for any payloads, capacities, answers, reports and number of
invocations: `TypeCorrect`, `GuidNeverBlocks` (`ProcessNotStuck`), `TwoNils`
(`NilOnlyTwoWays`), `NeitherDroppedNorResent` (`PayloadInOnePlace`). Four facts
about the whole of APM mode carry them: there is one `connectRoutine`, because no
response has a status (`OneRun`); before the guid is known and without SIGTERM no
payload gets through, so no harvest fails (`Early`); once payloads come, `process`
has its run and puts nothing aside (`Late`); and no channel holds a payload twice
(`Unique`). They show on what the absence of duplicates rests: not on `process`,
which never clears what it has put aside, but on the wait for the guid.

`APMSendProofs`, for any number of kinds of data: `TypeCorrect`,
`NoPanicOnErrChan`, `SuccessIsComplete`. The invariant is that `wg` is the number
of goroutines in `sendSingleTelemetry` plus the number in
`sendAPMTelemetryInternal` (`WaitGroupCounts`), that every sender has either been
confirmed or left its error (`ErrorsKept`), and that the wait can only be over
after the last `Add` (`CallerKnows`).

`StartupProofs`: `TypeCorrect`, `KeyOfFirstSource`. What `GetNewRelicLicenseKey`
returns fits the environment (`Fits`), and nothing after it changes the key.

Only model-checked: liveness, under fairness, which is out of the prover's reach
(`LoopNeverStuck`, `ShutdownEnds` and the others of the runs that say
"eventually"). Every invariant the passing runs check is proved.

## 6. Not modelled

The startup checks and `util/` are one-shot I/O and helpers;
`telemetry/payload.go` and the encodings of `apm/` are conversions whose result is
a field of a payload or of a report. `telemetry/corner_case_json.go` is 281,945
lines of test data, nearly all the lines of the sources; it has no behaviour.
`config/` and `lambda/extension/client/` are, beyond what `Startup` has, settings
and single requests. In the modelled parts: the internal state of
`sync.WaitGroup`, the global `invokedFunctionARN`, which the shipping goroutine
reads without a lock (a shipment may name the ARN of a neighbouring invocation,
which no property is about), malformed log records, a panic of NextEvent on a
status of 500 in the event loops, settings of the configuration other than the
switches and the key, and that `PreConnect` ignores the status of its answer,
whose effect is a failed `Connect`.

## 7. Plan

1. An abstract specification of an extension (answer every event, ship what was
   accepted, stop) that `MainLoop` implements.
2. `MainLoop` and `LogShipping` over one batch with one clock, so that
   `PayloadsWereAttributed` follows from the race that `MainLoop` records, instead of
   being a hypothesis of `OwnTraceIfAttributed`.
