\* Three handlers at once against polls and Close; a buffer of one report; the
\* shipping goroutine of either mode.
SPECIFICATION FairSpec
CONSTANTS
  r1 = r1
  r2 = r2
  Ids = {r1, r2}
  NoId = NoId
  NumPosts = 3
  Deliveries <- ShortDeliveries
  PlatformLogBufferSize = 1
  NodeRuntime = FALSE
  SerialDelivery = FALSE
  APMLambdaModes = {FALSE, TRUE}
INVARIANTS TypeOK NoSendOnClosedChannel WaitGroupCountsHandlers PostShippedWhole
PROPERTIES ShutdownEnds
CHECK_DEADLOCK FALSE
