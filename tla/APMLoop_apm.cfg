\* Complete replies of the collector, SIGTERM at any moment.  A request without an
\* answer (0) leads to the same response as a refused one, and is left to APMSend.
SPECIFICATION Spec
CONSTANTS
  Payloads = {1, 2}
  DataCap = 1
  ErrorCap = 1
  Answers = {200, 401}
  CompleteReplies = TRUE
  NumInvocations = 2
  NumReports = 1
  ReportKinds = {"metrics", "neither"}
  MaxErrors = 0
  MaySignal = TRUE
INVARIANTS TypeOK PayloadInOnePlace NilOnlyTwoWays
  ProcessNotStuck
PROPERTIES LoopGoesOn StopsWhenTold
CHECK_DEADLOCK FALSE
