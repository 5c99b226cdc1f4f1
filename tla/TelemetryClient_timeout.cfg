\* Two payloads, a short timeout: the caller gives up on a goroutine that goes on.
SPECIFICATION Spec
CONSTANTS
  NumPayloads = 2
  Timeout = 5
  HttpTimeout = 2
  SendTimeoutRetryBase = 1
  SendTimeoutMaxRetries = 3
  SendTimeoutMaxBackOff = 2
  MayCancel = TRUE
INVARIANTS TypeOK SuccessIsCertain EveryPayloadTried
           ReturnsInTime LingersBriefly
PROPERTIES CallCompletes
CHECK_DEADLOCK FALSE
