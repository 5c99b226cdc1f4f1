\* One POST at a time, a Node function, one request retried.
SPECIFICATION ShippingSpec
CONSTANTS
  r1 = r1
  r2 = r2
  retry = retry
  Ids = {r1, r2, retry}
  NoId = NoId
  NumPosts = 2
  Deliveries <- Deliverable
  PlatformLogBufferSize = 2
  NodeRuntime = TRUE
  SerialDelivery = TRUE
  APMLambdaModes = {FALSE}
  Invocations <- Attempts
  RequestOf <- RequestIds
  RipeDuration = 7
  VeryOldDuration = 12
INVARIANTS AttributionExact TraceOfOwnRequest
PROPERTIES BlankOnlyWhenEarly
CHECK_DEADLOCK FALSE
