\* Two invocations until a Shutdown event or SIGTERM: timeouts, crashes, late
\* payloads and reports.
SPECIFICATION FairSpec
CONSTANTS
  NumInvocations = 2
  FunctionTimeout = 2
  WatchMargin = 1
  MaxErrors = 0
  MaySignal = TRUE
  RipeDuration = 1
  VeryOldDuration = 2
  CollectTraceIDs = FALSE
  NoTrace = NoTrace
  FirstInstant = 3
  LastInstant = 7
INVARIANTS TypeOK HandedExactlyOnce AgentTelemetryAlwaysAttached RipeOmitsNothing
  MisattributedOnlyByRace TimeoutReportedOrShipped
PROPERTIES LoopNeverStuck
CHECK_DEADLOCK FALSE
