\* Does the telemetry of a request arrive before the next event?
SPECIFICATION FairSpec
CONSTANTS
  NumInvocations = 2
  FunctionTimeout = 2
  WatchMargin = 1
  MaxErrors = 0
  MaySignal = FALSE
  RipeDuration = 1
  VeryOldDuration = 2
  CollectTraceIDs = FALSE
  NoTrace = NoTrace
  FirstInstant = 3
  LastInstant = 7
INVARIANTS TelemetryArrivedByNextEvent

CHECK_DEADLOCK FALSE
